---- MODULE Spec2Model ----
(***************************************************************************)
(* A model of extract_html.py: the conversion of a Google-Docs export     *)
(* (a zip holding one HTML document and its images) into per-page HTML    *)
(* files.                                                                  *)
(*                                                                         *)
(* The DOM is an arena: node 1 is <body>, every other node has an         *)
(* identifier, a name and an ordered sequence of children (the             *)
(* `contents` list of the parser's tree).  The tree queries the program    *)
(* calls (find, findAll, findChildren, extract, clear) are modelled as     *)
(* what their documentation says over this tree of `contents` lists; the   *)
(* program's direct edits of `contents` (lines 100-101) are edits of the   *)
(* child sequence.  The library's internal links between elements, which   *)
(* those direct edits leave stale, are not part of the model.              *)
(*                                                                         *)
(* A stylesheet is a sequence of rules, each with a selector string and    *)
(* an ordered list of declarations; at-rules are not part of the model.    *)
(***************************************************************************)
EXTENDS Naturals, Sequences, FiniteSets, TLC

VARIABLES
    dom,      \* the document tree: [name, kids, attrs], node 1 is <body>
    pre,      \* the tree as it was before the last pass
    runlog,   \* one record per combine_tags run: its tag, what it merged and removed
    pages,    \* the list split_pages returned (page roots), <<>> before it ran
    op,       \* the last pass that ran, or the position of unpack_zip_to_html
    sheet,    \* the parsed stylesheet: a sequence of rules
    out,      \* what the last get_inline_style call returned or raised
    zip,      \* the archive: its entry names in order
    doc,      \* what the archive's HTML entry holds: [dom, sheet, hasStyle]
    fs,       \* the file system: [initial, dirs, events], events in order
    idx,      \* the loop index of unpack_zip_to_html and extract_pngs
    err       \* the call that raised, "" while nothing has

vars == <<dom, pre, runlog, pages, op, sheet, out, zip, doc, fs, idx, err>>

---------------------------------------------------------------------------
(* Bounds of the model. *)

\* Number of nodes below <body> in an input document.
MaxNodes == 4

\* Number of successive combine_tags runs on one document.
MaxRuns == 2

\* Number of rules in a stylesheet.
MaxRules == 2

\* Number of <span> elements in a document of the inline-style pass.
MaxSpans == 2

\* Number of entries in an archive.
MaxEntries == 2

---------------------------------------------------------------------------
(* The tree and the parser library's queries. *)

Body == 1

\* child.name of a NavigableString (a text node) is None.
NoName == "None"

\* The tag unpack_zip_to_html passes to combine_tags (line 180).
TargetTag == "h6"

Nodes(t) == 1..Len(t.name)

IsTag(t, n) == t.name[n] # NoName

RECURSIVE Descendants(_, _)
RECURSIVE DescendantsOfAll(_, _)
\* tag.descendants: every node below n, in document order.
Descendants(t, n) == DescendantsOfAll(t, t.kids[n])

DescendantsOfAll(t, ks) ==
    IF ks = <<>> THEN <<>>
    ELSE <<Head(ks)>> \o Descendants(t, Head(ks)) \o DescendantsOfAll(t, Tail(ks))

Range(s) == {s[i] : i \in DOMAIN s}

Reverse(s) == [i \in 1..Len(s) |-> s[Len(s) + 1 - i]]

\* parent.findAll(nm): the descendants named nm, in document order.
FindAll(t, n, nm) ==
    LET IsNm(x) == t.name[x] = nm IN SelectSeq(Descendants(t, n), IsNm)

\* parent.find(nm): the first descendant named nm, 0 for None.
Find(t, n, nm) ==
    LET all == FindAll(t, n, nm) IN IF all = <<>> THEN 0 ELSE Head(all)

\* tag.findChildren(): every Tag below n; text nodes are not Tags.
FindChildren(t, n) ==
    LET IsT(x) == IsTag(t, x) IN SelectSeq(Descendants(t, n), IsT)

\* element.parent: the node whose contents hold n, 0 for a detached node.
ParentOf(t, n) ==
    IF \E p \in Nodes(t) : n \in Range(t.kids[p])
    THEN CHOOSE p \in Nodes(t) : n \in Range(t.kids[p])
    ELSE 0

Without(s, n) == LET Keep(x) == x # n IN SelectSeq(s, Keep)

\* element.extract(): n leaves its parent's contents and keeps its subtree.
Extract(t, n) ==
    LET p == ParentOf(t, n) IN
    IF p = 0 THEN t
    ELSE [t EXCEPT !.kids[p] = Without(t.kids[p], n)]

---------------------------------------------------------------------------
(* combine_tags, lines 78-107. *)

\* BeautifulSoup("<br/>"): a fresh document object holding one <br/>.  The
\* result is the tree with the two new nodes; the document node is Len+1.
NewBreak(t) ==
    LET d == Len(t.name) + 1 IN
    [t EXCEPT !.name = t.name \o <<"[document]", "br">>,
              !.kids = t.kids \o << <<d + 1>>, <<>> >>,
              !.attrs = t.attrs \o << <<>>, <<>> >>]

\* Lines 100-102: last_child takes a line break and child's contents, and
\* child is emptied.
MergeInto(t, last, child) ==
    LET u == NewBreak(t)
        d == Len(t.name) + 1
    IN [u EXCEPT !.kids[last] = t.kids[last] \o <<d>> \o t.kids[child],
                 !.kids[child] = <<>>]

\* The order in which the cleanup visits the elements findAll returned
\* (line 104: must_clear.reverse()).
ClearOrderForward(found) == found

ClearOrder(found) == Reverse(found)

RECURSIVE ClearEach(_, _)
\* Lines 105-107: each element that has no Tag below it is extracted.  s is
\* [t, merged, removed].
ClearEach(s, todo) ==
    IF todo = <<>> THEN s
    ELSE LET n == Head(todo) IN
         IF Len(FindChildren(s.t, n)) = 0
         THEN ClearEach([s EXCEPT !.t = Extract(s.t, n),
                                  !.removed = Append(s.removed, n)],
                        Tail(todo))
         ELSE ClearEach(s, Tail(todo))

RECURSIVE CombineLoop(_, _, _, _, _)
RECURSIVE CombineTags(_, _, _)
\* Lines 87-102: the walk over parent.children from position i on, with
\* last_child = last (0 for None).
CombineLoop(s, parent, tag, i, last) ==
    IF i > Len(s.t.kids[parent]) THEN s
    ELSE LET child == s.t.kids[parent][i]
             name == s.t.name[child]
         IN
         IF name = "hr"
         THEN CombineLoop(CombineTags(s, child, tag), parent, tag, i + 1, last)
         ELSE IF name # tag
         THEN CombineLoop(s, parent, tag, i + 1, child)
         ELSE IF last = 0
         THEN CombineLoop(s, parent, tag, i + 1, child)
         ELSE IF s.t.name[last] # tag
         THEN CombineLoop(s, parent, tag, i + 1, child)
         ELSE CombineLoop([s EXCEPT !.t = MergeInto(s.t, last, child),
                                    !.merged = Append(s.merged, <<last, child>>)],
                          parent, tag, i + 1, last)

\* combine_tags(parent, tag) on [t, merged, removed]: the walk, then the
\* cleanup of the tag's elements below parent.
CombineTags(s, parent, tag) ==
    LET w == CombineLoop(s, parent, tag, 1, 0)
    IN ClearEach(w, ClearOrder(FindAll(w.t, parent, tag)))

---------------------------------------------------------------------------
(* split_pages, lines 109-121. *)

RECURSIVE SplitPages(_, _)
\* The result is [t, out]: the tree after the extractions and the list of
\* page roots.
SplitPages(t, parent) ==
    LET hr == Find(t, parent, "hr") IN
    IF hr # 0
    THEN LET rest == SplitPages(Extract(t, hr), hr)
         IN [t |-> rest.t, out |-> <<parent>> \o rest.out]
    ELSE [t |-> t, out |-> <<parent>>]

---------------------------------------------------------------------------
(* The style resolver, lines 61-70. *)

\* A file system nothing is known of: the directories there were at the
\* start, those there are now, and what was made and written, in order.
NoFiles == [initial |-> {}, dirs |-> {}, events |-> <<>>]

\* out before any lookup: [sel, ok, value].
NoResult == [sel |-> "", ok |-> FALSE, value |-> ""]

NoDoc == [dom |-> [name |-> <<"body">>, kids |-> << <<>> >>, attrs |-> << <<>> >>],
          sheet |-> <<>>, hasStyle |-> FALSE]

RECURSIVE Join(_, _)
\* sep.join(strs)
Join(strs, sep) ==
    IF strs = <<>> THEN ""
    ELSE IF Len(strs) = 1 THEN strs[1]
    ELSE strs[1] \o sep \o Join(Tail(strs), sep)

\* Line 69: d.name + ":" + " ".join([x.as_css() for x in d.value])
DeclarationCss(d) == d.name \o ":" \o Join(d.value, " ")

\* The first rule whose selector is sel, 0 when there is none.
FirstMatch(sh, sel) ==
    IF \E i \in DOMAIN sh : sh[i].selector = sel
    THEN CHOOSE i \in DOMAIN sh :
            /\ sh[i].selector = sel
            /\ \A j \in DOMAIN sh : sh[j].selector = sel => i <= j
    ELSE 0

\* Lines 63-66: rule is overwritten by every rule whose selector is sel, so
\* the loop leaves the last one; 0 stands for None.
MatchingRule(sh, sel) ==
    IF \E i \in DOMAIN sh : sh[i].selector = sel
    THEN CHOOSE i \in DOMAIN sh :
            /\ sh[i].selector = sel
            /\ \A j \in DOMAIN sh : sh[j].selector = sel => j <= i
    ELSE 0

\* get_inline_style(tinycss_sheet, tag): [ok, value]; ok is FALSE when
\* line 68 raises on rule = None.
GetInlineStyle(sh, sel) ==
    LET r == MatchingRule(sh, sel) IN
    IF r = 0 THEN [ok |-> FALSE, value |-> ""]
    ELSE [ok |-> TRUE,
          value |-> Join([k \in 1..Len(sh[r].declarations) |->
                             DeclarationCss(sh[r].declarations[k])], ";")]

---------------------------------------------------------------------------
(* Attribute passes, lines 123-169. *)

\* strip_attr(tag, attr_name) on an attribute map.
StripAttr(attrs, k) == [a \in (DOMAIN attrs) \ {k} |-> attrs[a]]

SetAttr(attrs, k, v) ==
    [a \in (DOMAIN attrs) \cup {k} |-> IF a = k THEN v ELSE attrs[a]]

\* tag.get("class"): the class list, <<>> standing for None as well (both
\* are false in line 145).
GetClass(attrs) == IF "class" \in DOMAIN attrs THEN attrs["class"] ELSE <<>>

\* The style value keeping the tag's earlier style in front.
NewStyleKeepingOld(attrs, styles) ==
    IF "style" \in DOMAIN attrs THEN attrs["style"] \o ";" \o Join(styles, ";")
    ELSE Join(styles, ";")

\* Line 152: the value given to the style attribute.
NewStyle(attrs, styles) == Join(styles, ";")

\* replace_tag_with_inline_css(styles, tag) on node n: [t, ok]; ok is FALSE
\* when a get_inline_style call raised, which leaves the tag stripped of
\* style and class.
ReplaceTagWithInlineCss(sh, t, n) ==
    LET class == GetClass(t.attrs[n]) IN
    IF class = <<>> THEN [t |-> t, ok |-> TRUE]
    ELSE LET stripped == StripAttr(StripAttr(t.attrs[n], "style"), "class")
             looked == [k \in 1..Len(class) |-> GetInlineStyle(sh, "." \o class[k])]
         IN IF \E k \in DOMAIN looked : ~looked[k].ok
            THEN [t |-> [t EXCEPT !.attrs[n] = stripped], ok |-> FALSE]
            ELSE [t |-> [t EXCEPT !.attrs[n] =
                            SetAttr(stripped, "style",
                                    NewStyle(t.attrs[n],
                                             [k \in 1..Len(class) |-> looked[k].value]))],
                  ok |-> TRUE]

RECURSIVE ReplaceEach(_, _, _)
ReplaceEach(sh, t, todo) ==
    IF todo = <<>> THEN [t |-> t, ok |-> TRUE]
    ELSE LET r == ReplaceTagWithInlineCss(sh, t, Head(todo)) IN
         IF r.ok THEN ReplaceEach(sh, r.t, Tail(todo)) ELSE r

\* change_class_to_inlines(soup, styles)
ChangeClassToInlines(sh, t) == ReplaceEach(sh, t, FindAll(t, Body, "span"))

RECURSIVE StripEach(_, _)
StripEach(t, todo) ==
    IF todo = <<>> THEN t
    ELSE StripEach([t EXCEPT !.attrs[Head(todo)] = StripAttr(t.attrs[Head(todo)], "class")],
                   Tail(todo))

Basics == <<"title", "subtitle", "h1", "h2", "h3", "h4", "h5", "h6", "a", "p">>

RECURSIVE StripBasics(_, _)
StripBasics(t, bs) ==
    IF bs = <<>> THEN t
    ELSE StripBasics(StripEach(t, FindAll(t, Body, Head(bs))), Tail(bs))

\* strip_class_from_basics(soup)
StripClassFromBasics(t) == StripBasics(t, Basics)

---------------------------------------------------------------------------
(* Input documents: every tree of at most MaxNodes nodes below <body>. *)

TagNames == {"h6", "hr", "p", NoName}

RECURSIVE AncestorsOrSelf(_, _)
\* par is the sequence of parents of the nodes 2.., par[k-1] being node k's.
AncestorsOrSelf(par, n) ==
    IF n = Body THEN {Body} ELSE {n} \cup AncestorsOrSelf(par, par[n - 1])

RECURSIVE Shapes(_)
\* The parent sequences of the trees with k nodes below <body>, the nodes
\* numbered in document order.
Shapes(k) ==
    IF k = 0 THEN {<<>>}
    ELSE UNION {{Append(par, p) : p \in AncestorsOrSelf(par, k)} : par \in Shapes(k - 1)}

KidsOf(par, n) ==
    LET IsKid(i) == par[i - 1] = n
    IN SelectSeq([i \in 1..Len(par) |-> i + 1], IsKid)

MakeTree(par, nm) ==
    [name  |-> <<"body">> \o nm,
     kids  |-> [n \in 1..(Len(par) + 1) |-> KidsOf(par, n)],
     attrs |-> [n \in 1..(Len(par) + 1) |-> <<>>]]

\* Only a Tag has contents.
WellFormed(t) == \A n \in Nodes(t) : t.kids[n] # <<>> => IsTag(t, n)

---------------------------------------------------------------------------
(* The tree passes as operations on a document. *)

TreeInit ==
    /\ \E k \in 0..MaxNodes : \E par \in Shapes(k) : \E nm \in [1..k -> TagNames] :
          /\ WellFormed(MakeTree(par, nm))
          /\ dom = MakeTree(par, nm)
    /\ pre = dom
    /\ runlog = <<>>
    /\ pages = <<>>
    /\ op = "none"
    /\ sheet = <<>>
    /\ out = NoResult
    /\ zip = <<>>
    /\ doc = NoDoc
    /\ fs = NoFiles
    /\ idx = 0
    /\ err = ""

\* The tags combine_tags is run with: the heading the program passes, and
\* "hr", which the walk treats before the tag.
TagChoices == {TargetTag, "hr"}

\* combine_tags(body, tag), a later run with the tag of the first.
DoCombine ==
    /\ pages = <<>>
    /\ Len(runlog) < MaxRuns
    /\ \E tag \in TagChoices :
          /\ runlog # <<>> => tag = runlog[1].tag
          /\ LET r == CombineTags([t |-> dom, merged |-> <<>>, removed |-> <<>>],
                                  Body, tag)
             IN /\ dom' = r.t
                /\ runlog' = Append(runlog, [tag |-> tag, merged |-> r.merged,
                                             removed |-> r.removed])
    /\ pre' = dom
    /\ op' = "combine"
    /\ UNCHANGED <<pages, sheet, out, zip, doc, fs, idx, err>>

\* pages = split_pages(body)
DoSplit ==
    /\ pages = <<>>
    /\ LET r == SplitPages(dom, Body)
       IN /\ dom' = r.t
          /\ pages' = r.out
    /\ pre' = dom
    /\ op' = "split"
    /\ UNCHANGED <<runlog, sheet, out, zip, doc, fs, idx, err>>

TreeNext == DoCombine \/ DoSplit

SpecTree == TreeInit /\ [][TreeNext]_vars

---------------------------------------------------------------------------
(* The style passes as operations: a stylesheet, a document of <span>     *)
(* elements, lookups and the inline-style pass.                            *)

DeclChoices ==
    { <<>>,
      << [name |-> "color", value |-> <<"red">>] >>,
      << [name |-> "border", value |-> <<"1px", "solid">>],
         [name |-> "color", value |-> <<"blue">>] >> }

Rules == {[selector |-> sel, declarations |-> d] : sel \in {".c1", ".c2"}, d \in DeclChoices}

\* The class attributes of the input spans; "absent" is a span without one.
ClassChoices == {"absent", <<"c1">>, <<"c2", "c1">>}

StyleChoices == {"absent", "color:green"}

SpanAttrs ==
    {LET a == [id |-> "s"]
         b == IF c = "absent" THEN a ELSE SetAttr(a, "class", c)
     IN IF st = "absent" THEN b ELSE SetAttr(b, "style", st)
     : c \in ClassChoices, st \in StyleChoices}

\* The state of everything the style passes leave alone.
StyleRest ==
    /\ pre = dom
    /\ runlog = <<>>
    /\ pages = <<>>
    /\ op = "none"
    /\ out = NoResult
    /\ zip = <<>>
    /\ doc = NoDoc
    /\ fs = NoFiles
    /\ idx = 0
    /\ err = ""

LookupInit ==
    /\ \E k \in 0..MaxRules : sheet \in [1..k -> Rules]
    /\ dom = NoDoc.dom
    /\ StyleRest

InlineInit ==
    /\ \E k \in 0..MaxRules : sheet \in [1..k -> Rules]
    /\ \E k \in 0..MaxSpans : \E par \in Shapes(k) : \E at \in [1..k -> SpanAttrs] :
          dom = [MakeTree(par, [i \in 1..k |-> "span"])
                    EXCEPT !.attrs = << <<>> >> \o at]
    /\ StyleRest

\* get_inline_style(sheet, sel)
DoLookup ==
    /\ op = "none"
    /\ \E sel \in {".c1", ".c2", ".c3"} :
          LET r == GetInlineStyle(sheet, sel)
          IN out' = [sel |-> sel, ok |-> r.ok, value |-> r.value]
    /\ op' = "lookup"
    /\ UNCHANGED <<dom, pre, runlog, pages, sheet, zip, doc, fs, idx, err>>

\* change_class_to_inlines(body, sheet)
DoInline ==
    /\ op = "none"
    /\ LET r == ChangeClassToInlines(sheet, dom)
       IN /\ dom' = r.t
          /\ op' = IF r.ok THEN "inline" ELSE "inline raised"
    /\ pre' = dom
    /\ UNCHANGED <<runlog, pages, sheet, out, zip, doc, fs, idx, err>>

SpecLookup == LookupInit /\ [][DoLookup]_vars

SpecInline == InlineInit /\ [][DoInline]_vars

---------------------------------------------------------------------------
(* The archive reader, lines 6-33. *)

EntryChoices ==
    { [dir |-> "", base |-> "doc", ext |-> "html"],
      [dir |-> "", base |-> "DOC", ext |-> "HTML"],
      [dir |-> "", base |-> "a", ext |-> "png"],
      [dir |-> "images", base |-> "b", ext |-> "PNG"],
      [dir |-> "", base |-> "notes", ext |-> "txt"] }

\* The entry's name in the archive.
EntryName(e) ==
    IF e.dir = "" THEN e.base \o "." \o e.ext
    ELSE e.dir \o "/" \o e.base \o "." \o e.ext

\* str.upper() on the extensions of the model.
Upper(x) ==
    CASE x = "html" -> "HTML"
      [] x = "png" -> "PNG"
      [] x = "txt" -> "TXT"
      [] OTHER -> x

\* f.upper().endswith("." + suffix)
EndsWith(e, suffix) == Upper(e.ext) = suffix

\* extract_html(file_name): lines 10-13 keep the last entry that ends in
\* .HTML; the result is its position, 0 standing for None.
ExtractHtml(z) ==
    IF \E i \in DOMAIN z : EndsWith(z[i], "HTML")
    THEN CHOOSE i \in DOMAIN z :
            /\ EndsWith(z[i], "HTML")
            /\ \A j \in DOMAIN z : EndsWith(z[j], "HTML") => j <= i
    ELSE 0

---------------------------------------------------------------------------
(* unpack_zip_to_html, lines 171-187, one step per call and per file. *)

OutputDir == "out"

\* Line 174: output_dir joined with the file name less ".zip".
NewDir == OutputDir \o "/" \o "doc"

\* os.mkdir raising only for a missing parent directory.
MkdirFailsOnMissingParent(dirs, d, parent) == parent \notin dirs

\* Line 175: os.mkdir(d) raises when d exists or when its parent does not.
MkdirFails(dirs, d, parent) == d \in dirs \/ parent \notin dirs

Event(kind, path, n) == [kind |-> kind, path |-> path, n |-> n]

Record(f, e) == [f EXCEPT !.events = Append(f.events, e)]

Raise(what) == op' = "raised" /\ err' = what

\* Line 175.
Mkdir ==
    /\ op = "start"
    /\ IF MkdirFails(fs.dirs, NewDir, OutputDir)
       THEN /\ Raise("os.mkdir")
            /\ UNCHANGED fs
       ELSE /\ fs' = Record([fs EXCEPT !.dirs = fs.dirs \cup {NewDir}],
                            Event("mkdir", NewDir, 0))
            /\ op' = "body"
            /\ UNCHANGED err
    /\ UNCHANGED <<dom, pre, runlog, pages, sheet, out, zip, doc, idx>>

\* Line 176, get_body_soup: extract_html, then the parser on what it
\* returned.  Given None the parser raises, or (another parser version)
\* returns an empty document, whose body is None.
GetBodySoup ==
    /\ op = "body"
    /\ \/ /\ ExtractHtml(zip) # 0
          /\ dom' = doc.dom
          /\ op' = "css"
          /\ UNCHANGED err
       \/ /\ ExtractHtml(zip) = 0
          /\ Raise("BeautifulSoup")
          /\ UNCHANGED dom
       \/ /\ ExtractHtml(zip) = 0
          /\ op' = "css"
          /\ UNCHANGED <<dom, err>>
    /\ pre' = dom'
    /\ UNCHANGED <<runlog, pages, sheet, out, zip, doc, fs, idx>>

\* Line 177, get_tinycss_sheet: the document is parsed again and line 52
\* reads the contents of its <style>, raising when there is none.
GetTinycssSheet ==
    /\ op = "css"
    /\ IF ExtractHtml(zip) = 0 \/ ~doc.hasStyle
       THEN /\ Raise("get_css_text")
            /\ UNCHANGED sheet
       ELSE /\ sheet' = doc.sheet
            /\ op' = "strip"
            /\ UNCHANGED err
    /\ UNCHANGED <<dom, pre, runlog, pages, out, zip, doc, fs, idx>>

\* Line 178.
StripClasses ==
    /\ op = "strip"
    /\ dom' = StripClassFromBasics(dom)
    /\ pre' = dom
    /\ op' = "inline"
    /\ UNCHANGED <<runlog, pages, sheet, out, zip, doc, fs, idx, err>>

\* Line 179.
InlineStyles ==
    /\ op = "inline"
    /\ LET r == ChangeClassToInlines(sheet, dom)
       IN /\ dom' = r.t
          /\ IF r.ok THEN op' = "combine" /\ UNCHANGED err
             ELSE Raise("get_inline_style")
    /\ pre' = dom
    /\ UNCHANGED <<runlog, pages, sheet, out, zip, doc, fs, idx>>

\* Line 180.
CombineHeadings ==
    /\ op = "combine"
    /\ LET r == CombineTags([t |-> dom, merged |-> <<>>, removed |-> <<>>],
                            Body, TargetTag)
       IN /\ dom' = r.t
          /\ runlog' = Append(runlog, [tag |-> TargetTag, merged |-> r.merged,
                                       removed |-> r.removed])
    /\ pre' = dom
    /\ op' = "split"
    /\ UNCHANGED <<pages, sheet, out, zip, doc, fs, idx, err>>

\* Line 181.
Split ==
    /\ op = "split"
    /\ LET r == SplitPages(dom, Body)
       IN /\ dom' = r.t
          /\ pages' = r.out
    /\ pre' = dom
    /\ idx' = 0
    /\ op' = "write"
    /\ UNCHANGED <<runlog, sheet, out, zip, doc, fs, err>>

\* Line 183: the name of page i's file.
PageFile(i) == NewDir \o "/" \o "page_" \o ToString(i) \o ".html"

\* Lines 182-186, one turn of the loop: page idx is written.
WritePage ==
    /\ op = "write"
    /\ idx < Len(pages)
    /\ fs' = Record(fs, Event("page", PageFile(idx), pages[idx + 1]))
    /\ idx' = idx + 1
    /\ UNCHANGED <<dom, pre, runlog, pages, op, sheet, out, zip, doc, err>>

\* The loop of lines 182-186 ends and line 187 calls extract_pngs.
CallExtractPngs ==
    /\ op = "write"
    /\ idx = Len(pages)
    /\ op' = "pngs"
    /\ idx' = 0
    /\ UNCHANGED <<dom, pre, runlog, pages, sheet, out, zip, doc, fs, err>>

\* os.path.split(output_name)[0] for the entry's file under NewDir.
ImgDir(e) == IF e.dir = "" THEN NewDir ELSE NewDir \o "/" \o e.dir

\* Lines 24-33, one turn of the loop of extract_pngs: an entry that ends in
\* .PNG is written under NewDir, its directory made first if missing.
ExtractPng ==
    /\ op = "pngs"
    /\ idx < Len(zip)
    /\ LET e == zip[idx + 1]
           made == IF ImgDir(e) \in fs.dirs THEN fs
                   ELSE Record([fs EXCEPT !.dirs = fs.dirs \cup {ImgDir(e)}],
                               Event("makedirs", ImgDir(e), 0))
       IN IF EndsWith(e, "PNG")
          THEN fs' = Record(made, Event("png", NewDir \o "/" \o EntryName(e), idx))
          ELSE UNCHANGED fs
    /\ idx' = idx + 1
    /\ UNCHANGED <<dom, pre, runlog, pages, op, sheet, out, zip, doc, err>>

\* extract_pngs and unpack_zip_to_html return.
Return ==
    /\ op = "pngs"
    /\ idx = Len(zip)
    /\ op' = "done"
    /\ UNCHANGED <<dom, pre, runlog, pages, sheet, out, zip, doc, fs, idx, err>>

\* The documents an archive's HTML entry may hold.
Tree(par, nm, at) == [MakeTree(par, nm) EXCEPT !.attrs = << <<>> >> \o at]

RedRule == [selector |-> ".c1",
            declarations |-> << [name |-> "color", value |-> <<"red">>] >>]

PipeDocs ==
    { \* <h6 class=c4>a</h6><h6 class=c4>b</h6><p><span class=c1>x</span></p>
      [dom |-> Tree(<<1, 2, 1, 4, 1, 6, 7>>,
                    <<"h6", NoName, "h6", NoName, "p", "span", NoName>>,
                    << [class |-> <<"c4">>], <<>>, [class |-> <<"c4">>], <<>>,
                       <<>>, [class |-> <<"c1">>, style |-> "color:green"], <<>> >>),
       sheet |-> <<RedRule>>, hasStyle |-> TRUE],
      \* <p/><hr><p/><hr><p/>, each <hr> holding what follows it
      [dom |-> Tree(<<1, 1, 3, 3, 5>>, <<"p", "hr", "p", "hr", "p">>,
                    << <<>>, <<>>, <<>>, <<>>, <<>> >>),
       sheet |-> <<>>, hasStyle |-> TRUE],
      \* <p/><hr/><p/><hr/>, the <hr> elements empty
      [dom |-> Tree(<<1, 1, 1, 1>>, <<"p", "hr", "p", "hr">>,
                    << <<>>, <<>>, <<>>, <<>> >>),
       sheet |-> <<RedRule>>, hasStyle |-> TRUE],
      \* <span class=c2/> with no rule for .c2
      [dom |-> Tree(<<1>>, <<"span">>, << [class |-> <<"c2">>] >>),
       sheet |-> <<RedRule>>, hasStyle |-> TRUE],
      \* a document without a <style>
      [dom |-> Tree(<<1>>, <<"p">>, << <<>> >>),
       sheet |-> <<>>, hasStyle |-> FALSE] }

PipeInit ==
    /\ \E k \in 0..MaxEntries : zip \in [1..k -> EntryChoices]
    /\ doc \in PipeDocs
    /\ \E dirs \in {{}, {OutputDir}, {OutputDir, NewDir}} :
          fs = [initial |-> dirs, dirs |-> dirs, events |-> <<>>]
    /\ dom = NoDoc.dom
    /\ pre = dom
    /\ runlog = <<>>
    /\ pages = <<>>
    /\ op = "start"
    /\ sheet = <<>>
    /\ out = NoResult
    /\ idx = 0
    /\ err = ""

PipeNext ==
    \/ Mkdir
    \/ GetBodySoup
    \/ GetTinycssSheet
    \/ StripClasses
    \/ InlineStyles
    \/ CombineHeadings
    \/ Split
    \/ WritePage
    \/ CallExtractPngs
    \/ ExtractPng
    \/ Return

Init == PipeInit

Next == PipeNext

\* A run of unpack_zip_to_html.
Spec == Init /\ [][Next]_vars

---------------------------------------------------------------------------
(* What the claims speak of. *)

InTree(t, n) == n = Body \/ n \in Range(Descendants(t, Body))

\* The nodes below root other than <hr> elements, in document order.
Content(t, root) ==
    LET NotHr(x) == t.name[x] # "hr" IN SelectSeq(Descendants(t, root), NotHr)

RECURSIVE ConcatPages(_, _)
ConcatPages(t, roots) ==
    IF roots = <<>> THEN <<>>
    ELSE Content(t, Head(roots)) \o ConcatPages(t, Tail(roots))

\* The number of <hr> elements before x in the document order of t.
HrBefore(t, x) ==
    LET d == Descendants(t, Body)
        i == CHOOSE k \in DOMAIN d : d[k] = x
    IN Cardinality({k \in 1..(i - 1) : t.name[d[k]] = "hr"})

LastRun == runlog[Len(runlog)]

\* The last pass was combine_tags with the tag the program passes.
HeadingsCombined == op = "combine" /\ LastRun.tag = TargetTag

RECURSIVE Walked(_, _)
\* The nodes whose children combine_tags walks: <body>, and every <hr>
\* child of a walked node.
Walked(t, p) ==
    \/ p = Body
    \/ /\ t.name[p] = "hr"
       /\ ParentOf(t, p) # 0
       /\ Walked(t, ParentOf(t, p))

\* A maximal run of two or more adjacent target-tag children of p, the
\* positions i..j of p's children.
IsRun(t, p, i, j) ==
    /\ i < j
    /\ j <= Len(t.kids[p])
    /\ \A k \in i..j : t.name[t.kids[p][k]] = TargetTag
    /\ i > 1 => t.name[t.kids[p][i - 1]] # TargetTag
    /\ j < Len(t.kids[p]) => t.name[t.kids[p][j + 1]] # TargetTag

\* A line-break node: the document object combine_tags appends.
IsBreak(t, n) ==
    /\ t.name[n] = "[document]"
    /\ Len(t.kids[n]) = 1
    /\ t.name[t.kids[n][1]] = "br"

\* A child sequence with every line-break node written as 0.
Marked(t, s) == [k \in 1..Len(s) |-> IF IsBreak(t, s[k]) THEN 0 ELSE s[k]]

RECURSIVE JoinedKids(_, _, _, _)
\* The children the claim expects of a merged run: for each of the
\* elements i..j of p's children, a line break (0) and its children in t.
JoinedKids(t, p, i, j) ==
    IF i > j THEN <<>>
    ELSE <<0>> \o t.kids[t.kids[p][i]] \o JoinedKids(t, p, i + 1, j)

\* A child sequence less the elements the cleanup of the last run removed.
StillThere(s) ==
    LET Kept(x) == x \notin Range(LastRun.removed) IN SelectSeq(s, Kept)

---------------------------------------------------------------------------
(* The claims about split_pages. *)

\* C1: a body with k <hr> elements, in any arrangement, is split into
\* exactly k+1 page roots, the body being the first.
C1_PageCount ==
    op = "split" =>
        /\ Len(pages) = Len(FindAll(pre, Body, "hr")) + 1
        /\ pages[1] = Body

\* C2: the pages' contents, concatenated in list order, are the body's
\* nodes other than <hr> in document order; no page holds an <hr> below its
\* root; and a node that follows k <hr> elements is in page k.
C2_PagesPreserveContent ==
    op = "split" =>
        /\ ConcatPages(dom, pages) = Content(pre, Body)
        /\ \A i \in DOMAIN pages : FindAll(dom, pages[i], "hr") = <<>>
        /\ \A x \in Range(Content(pre, Body)) :
              /\ HrBefore(pre, x) + 1 \in DOMAIN pages
              /\ x \in Range(Content(dom, pages[HrBefore(pre, x) + 1]))

---------------------------------------------------------------------------
(* The claims about combine_tags. *)

\* C3: combine_tags is idempotent, whatever the tag: a second run in
\* succession merges nothing, removes nothing and leaves the tree of the
\* first run.
C3_Idempotent ==
    (op = "combine" /\ Len(runlog) >= 2) =>
        /\ dom = pre
        /\ LastRun.merged = <<>>
        /\ LastRun.removed = <<>>

\* C3's case: a second run after a first run that merged and removed.
C3_Witness ==
    /\ op = "combine"
    /\ Len(runlog) = 2
    /\ LastRun.tag = TargetTag
    /\ runlog[1].merged # <<>>
    /\ runlog[1].removed # <<>>

\* C4: every run of two or more adjacent target-tag siblings becomes its
\* first element, holding its own children and then, for each later
\* element, a line break and that element's children; the later elements
\* are gone from the tree.  (Children that the cleanup step removed as
\* empty are not counted against the claim.)
C4_RunCollapses ==
    HeadingsCombined =>
        \A p \in Nodes(pre) : \A i, j \in 1..Len(pre.kids[p]) :
            (InTree(pre, p) /\ Walked(pre, p) /\ IsRun(pre, p, i, j)) =>
                LET first == pre.kids[p][i] IN
                /\ first \in Range(dom.kids[p])
                /\ Marked(dom, dom.kids[first])
                      = StillThere(pre.kids[first] \o JoinedKids(pre, p, i + 1, j))
                /\ \A k \in (i + 1)..j : ~InTree(dom, pre.kids[p][k])

\* C8: no merge crosses a page boundary: two target-tag siblings with an
\* <hr> sibling between them are not merged with each other, and an element
\* inside an <hr> is merged only into an adjacent sibling inside that <hr>.
C8_NoMergeAcrossHr ==
    HeadingsCombined =>
        \A m \in Range(LastRun.merged) :
            LET a == m[1]
                b == m[2]
                p == ParentOf(pre, b)
                ks == pre.kids[p]
                ia == CHOOSE k \in DOMAIN ks : ks[k] = a
                ib == CHOOSE k \in DOMAIN ks : ks[k] = b
            IN /\ ParentOf(pre, a) = p
               /\ \A k \in (ia + 1)..(ib - 1) : pre.name[ks[k]] # "hr"
               /\ pre.name[p] = "hr" =>
                     \A k \in ia..ib : pre.name[ks[k]] = TargetTag

\* C9: the cleanup removes a target-tag element exactly when it has no
\* child at all after the merging; an element that still has a child, a
\* lone text included, stays in the tree.
C9_CleanupOnlyEmpty ==
    HeadingsCombined =>
        \A n \in Nodes(pre) :
            (pre.name[n] = TargetTag /\ InTree(pre, n)) =>
                /\ n \in Range(LastRun.removed) <=> dom.kids[n] = <<>>
                /\ dom.kids[n] # <<>> => InTree(dom, n)

---------------------------------------------------------------------------
(* The claims about the style resolver and the inline-style pass. *)

\* The rules of the stylesheet whose selector is sel, by position.
RulesFor(sel) == {i \in DOMAIN sheet : sheet[i].selector = sel}

LastRuleFor(sel) == CHOOSE i \in RulesFor(sel) : \A j \in RulesFor(sel) : j <= i

RECURSIVE ValueText(_, _)
\* The first k tokens of a declaration's value, a space between two.
ValueText(v, k) ==
    IF k = 0 THEN ""
    ELSE ValueText(v, k - 1) \o (IF k > 1 THEN " " ELSE "") \o v[k]

RECURSIVE RuleText(_, _)
\* The first k declarations of a rule as "name:value" items, a semicolon
\* between two.
RuleText(ds, k) ==
    IF k = 0 THEN ""
    ELSE RuleText(ds, k - 1) \o (IF k > 1 THEN ";" ELSE "")
            \o ds[k].name \o ":" \o ValueText(ds[k].value, Len(ds[k].value))

\* The inline style of selector sel: its last rule's declarations.
StyleOf(sel) ==
    LET ds == sheet[LastRuleFor(sel)].declarations IN RuleText(ds, Len(ds))

RECURSIVE ClassesText(_, _)
\* The inline styles of the first k classes of a list, a semicolon between
\* two.
ClassesText(cs, k) ==
    IF k = 0 THEN ""
    ELSE ClassesText(cs, k - 1) \o (IF k > 1 THEN ";" ELSE "") \o StyleOf("." \o cs[k])

Spans(t) == {n \in Nodes(t) : t.name[n] = "span" /\ InTree(t, n)}

HadClass(n) == "class" \in DOMAIN pre.attrs[n] /\ pre.attrs[n]["class"] # <<>>

\* C5 as stated: after the pass, a span that had a class has no class
\* attribute and a non-empty style attribute, the styles of its classes
\* joined by semicolons in class order; a span without a class is unchanged.
C5_InlineNonEmpty ==
    op = "inline" =>
        \A n \in Spans(pre) :
            IF HadClass(n)
            THEN /\ "class" \notin DOMAIN dom.attrs[n]
                 /\ "style" \in DOMAIN dom.attrs[n]
                 /\ dom.attrs[n]["style"] # ""
                 /\ dom.attrs[n]["style"]
                       = ClassesText(pre.attrs[n]["class"], Len(pre.attrs[n]["class"]))
            ELSE dom.attrs[n] = pre.attrs[n]

\* C5 amended: after the pass, a span that had a class has no class
\* attribute and a style attribute, the styles of its classes joined by
\* semicolons in class order, whatever style it had before; that value is
\* empty exactly when the span has one class whose rule has no declarations;
\* every other attribute is kept, and a span without a class is unchanged.
C5_InlineStyle ==
    op = "inline" =>
        \A n \in Spans(pre) :
            IF HadClass(n)
            THEN LET cs == pre.attrs[n]["class"] IN
                 /\ "class" \notin DOMAIN dom.attrs[n]
                 /\ "style" \in DOMAIN dom.attrs[n]
                 /\ dom.attrs[n]["style"] = ClassesText(cs, Len(cs))
                 /\ dom.attrs[n]["style"] = ""
                       <=> (Len(cs) = 1
                            /\ sheet[LastRuleFor("." \o cs[1])].declarations = <<>>)
                 /\ \A a \in (DOMAIN pre.attrs[n]) \ {"class", "style"} :
                       a \in DOMAIN dom.attrs[n] /\ dom.attrs[n][a] = pre.attrs[n][a]
            ELSE dom.attrs[n] = pre.attrs[n]

\* C5's case: the pass completed on a document with a span of two classes
\* that had a style of its own, and a span without a class.
C5_Witness ==
    /\ op = "inline"
    /\ \E n \in Spans(pre) :
          /\ HadClass(n)
          /\ Len(pre.attrs[n]["class"]) = 2
          /\ "style" \in DOMAIN pre.attrs[n]
          /\ dom.attrs[n]["style"] # ""
    /\ \E n \in Spans(pre) : ~HadClass(n) /\ "style" \in DOMAIN pre.attrs[n]

\* C10: get_inline_style returns the declarations of the last rule whose
\* selector equals the requested one, as "name:value" items joined by ";"
\* in declaration order, earlier rules of that selector adding nothing; with
\* no such rule the call fails.
C10_LastRuleWins ==
    op = "lookup" =>
        IF RulesFor(out.sel) = {}
        THEN ~out.ok
        ELSE out.ok /\ out.value = StyleOf(out.sel)

\* C10's case: a lookup of a selector that two rules with different
\* declarations carry.
C10_Witness ==
    /\ op = "lookup"
    /\ out.ok
    /\ \E i, j \in RulesFor(out.sel) :
          /\ i < j
          /\ sheet[i].declarations # sheet[j].declarations
          /\ sheet[i].declarations # <<>>
          /\ sheet[j].declarations # <<>>

---------------------------------------------------------------------------
(* The claims about unpack_zip_to_html. *)

NoHtmlEntry == \A i \in DOMAIN zip : Upper(zip[i].ext) # "HTML"

\* C6: with no entry that ends in .HTML, extract_html returns None and
\* unpack_zip_to_html returns without raising and without going on to the
\* DOM parser, the CSS parser or any tree pass.
C6_ShortCircuit ==
    NoHtmlEntry =>
        /\ ExtractHtml(zip) = 0
        /\ err \notin {"BeautifulSoup", "get_css_text", "get_inline_style"}
        /\ op \notin {"css", "strip", "inline", "combine", "split", "write", "pngs"}

Events == fs.events

\* The number of page files written by the first k events.
PagesWritten(k) == Cardinality({i \in 1..k : Events[i].kind = "page"})

\* C7: the output directory is created before any page is written; the
\* pages are written in increasing index order, one file per page root; no
\* image is written until every page is; and when the output directory
\* exists already the run fails at its creation with nothing written.
C7_EffectsOrdered ==
    /\ \A k \in DOMAIN Events :
          Events[k].kind # "mkdir" => (k > 1 /\ Events[1].kind = "mkdir")
    /\ \A k \in DOMAIN Events :
          Events[k].kind = "page" =>
              /\ PagesWritten(k) <= Len(pages)
              /\ Events[k].path = PageFile(PagesWritten(k) - 1)
              /\ Events[k].n = pages[PagesWritten(k)]
    /\ \A k \in DOMAIN Events :
          Events[k].kind \in {"png", "makedirs"} =>
              (pages # <<>> /\ PagesWritten(k) = Len(pages))
    /\ op = "done" => PagesWritten(Len(Events)) = Len(pages)
    /\ NewDir \in fs.initial =>
          /\ Events = <<>>
          /\ op \in {"start", "raised"}
          /\ op = "raised" => err = "os.mkdir"

\* C7's case: a run that wrote several pages and then an image into a
\* directory it had to make.
C7_Witness ==
    /\ op = "done"
    /\ PagesWritten(Len(Events)) >= 2
    /\ \E k \in DOMAIN Events : Events[k].kind = "makedirs"
    /\ Events[Len(Events)].kind = "png"

====
